---- MODULE Spec2Model ----
(***************************************************************************)
(* A model of generate_summary.py: the wheel filename parser, the tag      *)
(* decoder (WheelInfo), the coverage matrix builder (scan_wheels), the     *)
(* requirement resolver (parse_version_requirement), the requirement       *)
(* validator (validate_requirements), the version ordering (sort_versions) *)
(* and the entry point (main) with its exit status.                        *)
(*                                                                         *)
(* Python strings are TLA+ strings; a character is a string of length 1.   *)
(* Python lists are sequences, Python sets are sets, a dict is a function. *)
(***************************************************************************)
EXTENDS Integers, Sequences, FiniteSets, TLC

VARIABLES
    pc,                       \* position of the operation under study
    filename,                 \* parse_wheel_filename: its argument
    wheel_info,               \* the WheelInfo it returns, or NoneInfo
    python_version,           \* WheelInfo.python_version
    platform_name,            \* WheelInfo.platform_name
    wheel_files,              \* scan_wheels: the names rglob yields, in order
    idx,                      \* scan_wheels: number of names consumed
    matrix,                   \* scan_wheels: platform -> set of versions
    platforms,                \* scan_wheels: set of platform labels
    versions,                 \* scan_wheels: set of version labels
    requirement,              \* parse_version_requirement: the token
    available_versions,       \* parse_version_requirement: observed versions
    resolved,                 \* parse_version_requirement: returned list
    require_platforms,        \* validate_requirements: flat platform list
    require_python_versions,  \* validate_requirements: flat version list
    require_freethreaded,     \* validate_requirements: free-threaded policy
    require_matrix,           \* validate_requirements: JSON matrix spec
    result,                   \* validate_requirements: outcome
    sorted_versions,          \* sort_versions: the list it returns
    path_exists,              \* main: whether wheels_path exists
    fail_on_missing,          \* main: the --fail-on-missing argument
    stderr,                   \* main: lines printed on the diagnostic stream
    summary,                  \* main: the lines added to the table for errors
    exit_status               \* main: process exit status, Running before exit

vars == <<pc, filename, wheel_info, python_version, platform_name,
          wheel_files, idx, matrix, platforms, versions,
          requirement, available_versions, resolved,
          require_platforms, require_python_versions, require_freethreaded,
          require_matrix, result, sorted_versions,
          path_exists, fail_on_missing, stderr, summary, exit_status>>

parseVars == <<filename, wheel_info, python_version, platform_name>>
scanVars == <<wheel_files, idx, matrix, platforms, versions>>
resolveVars == <<requirement, available_versions, resolved>>
validateVars == <<require_platforms, require_python_versions,
                  require_freethreaded, require_matrix, result>>
sortVars == <<sorted_versions>>
mainVars == <<path_exists, fail_on_missing, stderr, summary, exit_status>>

---------------------------------------------------------------------------
(* Bounds of the explored inputs.                                          *)

MaxSegments == 6     \* '-'-separated segments of a generated filename
MaxDigits == 3       \* digits of a generated runtime tag
MaxFiles == 3        \* names the directory walk yields to scan_wheels
MaxMinor == 11       \* highest minor version of a generated label or token
MaxObserved == 2     \* observed versions handed to the resolver
MaxCells == 2        \* covered (platform, version) cells handed to the validator

---------------------------------------------------------------------------
(* Python str primitives.                                                  *)

Char(s, i) == IF i >= 1 /\ i <= Len(s) THEN SubSeq(s, i, i) ELSE ""

StartsWith(s, p) == Len(p) <= Len(s) /\ SubSeq(s, 1, Len(p)) = p

EndsWith(s, p) == Len(p) <= Len(s) /\ SubSeq(s, Len(s) - Len(p) + 1, Len(s)) = p

Contains(s, p) ==
    \E i \in 1..(Len(s) - Len(p) + 1) : SubSeq(s, i, i + Len(p) - 1) = p

DigitChars == {"0", "1", "2", "3", "4", "5", "6", "7", "8", "9"}

IsDigit(c) == c \in DigitChars

UpperLetters == "ABCDEFGHIJKLMNOPQRSTUVWXYZ"

LowerLetters == "abcdefghijklmnopqrstuvwxyz"

LowerChar(c) ==
    IF \E k \in 1..Len(UpperLetters) : Char(UpperLetters, k) = c
    THEN Char(LowerLetters, CHOOSE k \in 1..Len(UpperLetters) : Char(UpperLetters, k) = c)
    ELSE c

RECURSIVE Lower(_)
Lower(s) == IF s = "" THEN "" ELSE LowerChar(Char(s, 1)) \o Lower(Tail(s))

\* str.split(sep) for a one-character separator: always at least one part.
RECURSIVE SplitFrom(_, _, _, _)
SplitFrom(s, sep, i, cur) ==
    IF i > Len(s) THEN <<cur>>
    ELSE IF Char(s, i) = sep THEN <<cur>> \o SplitFrom(s, sep, i + 1, "")
    ELSE SplitFrom(s, sep, i + 1, cur \o Char(s, i))

Split(s, sep) == SplitFrom(s, sep, 1, "")

\* sep.join(parts)
RECURSIVE Join(_, _)
Join(parts, sep) ==
    IF Len(parts) = 0 THEN ""
    ELSE IF Len(parts) = 1 THEN parts[1]
    ELSE parts[1] \o sep \o Join(Tail(parts), sep)

\* Number of consecutive digit characters of s from position i on.
RECURSIVE DigitRun(_, _)
DigitRun(s, i) == IF IsDigit(Char(s, i)) THEN 1 + DigitRun(s, i + 1) ELSE 0

---------------------------------------------------------------------------
(* parse_wheel_filename                                                    *)

NoneInfo == [found |-> FALSE, python_tag |-> "", abi_tag |-> "", platform_tag |-> ""]

WheelInfo(python_tag, abi_tag, platform_tag) ==
    [found |-> TRUE, python_tag |-> python_tag, abi_tag |-> abi_tag,
     platform_tag |-> platform_tag]

\* A plausible slip: the tags taken at fixed positions from the left.
parse_wheel_filename_leftAnchored(name) ==
    IF ~EndsWith(name, ".whl") THEN NoneInfo
    ELSE LET parts == Split(SubSeq(name, 1, Len(name) - 4), "-") IN
         IF Len(parts) < 5 THEN NoneInfo
         ELSE WheelInfo(parts[3], parts[4], parts[5])

parse_wheel_filename(name) ==
    IF ~EndsWith(name, ".whl") THEN NoneInfo
    ELSE LET parts == Split(SubSeq(name, 1, Len(name) - 4), "-")
             n == Len(parts)
         IN IF n < 5 THEN NoneInfo
            ELSE WheelInfo(parts[n - 2], parts[n - 1], parts[n])

---------------------------------------------------------------------------
(* WheelInfo.python_version                                                *)

NoMatch == [matched |-> FALSE, major |-> "", minor |-> ""]

\* re.match(prefix + r"(\d)(\d+)", tag), and with t = TRUE the same pattern
\* followed by a literal "t". re.match anchors at the start only. The greedy
\* minor group takes the whole digit run; with the trailing "t" no shorter
\* run can match, since the character after a shorter run is a digit.
MatchTag(prefix, tag, t) ==
    LET n == Len(prefix)
        k == DigitRun(tag, n + 1)
    IN IF StartsWith(tag, prefix) /\ k >= 2 /\ (t => Char(tag, n + k + 1) = "t")
       THEN [matched |-> TRUE, major |-> Char(tag, n + 1),
             minor |-> SubSeq(tag, n + 2, n + k)]
       ELSE NoMatch

\* A plausible slip: the plain CPython rule tried before the abi-tag rule.
PythonVersion_abiLate(info) ==
    LET ft == MatchTag("cp", info.python_tag, TRUE)
        abi == MatchTag("cp", info.abi_tag, TRUE)
        cp == MatchTag("cp", info.python_tag, FALSE)
        pp == MatchTag("pp", info.python_tag, FALSE)
    IN IF ft.matched THEN ft.major \o "." \o ft.minor \o "t"
       ELSE IF cp.matched THEN cp.major \o "." \o cp.minor
       ELSE IF abi.matched THEN abi.major \o "." \o abi.minor \o "t"
       ELSE IF pp.matched THEN "PyPy" \o pp.major \o "." \o pp.minor
       ELSE info.python_tag

PythonVersion(info) ==
    LET ft == MatchTag("cp", info.python_tag, TRUE)
        abi == MatchTag("cp", info.abi_tag, TRUE)
        cp == MatchTag("cp", info.python_tag, FALSE)
        pp == MatchTag("pp", info.python_tag, FALSE)
    IN IF ft.matched THEN ft.major \o "." \o ft.minor \o "t"
       ELSE IF abi.matched THEN abi.major \o "." \o abi.minor \o "t"
       ELSE IF cp.matched THEN cp.major \o "." \o cp.minor
       ELSE IF pp.matched THEN "PyPy" \o pp.major \o "." \o pp.minor
       ELSE info.python_tag

---------------------------------------------------------------------------
(* WheelInfo.platform_name and WheelInfo._extract_arch                     *)

ExtractArch(platform) ==
    IF Contains(platform, "x86_64") \/ Contains(platform, "amd64") THEN "x86_64"
    ELSE IF Contains(platform, "aarch64") \/ Contains(platform, "arm64") THEN "aarch64"
    ELSE IF Contains(platform, "armv7") \/ Contains(platform, "armv7l") THEN "armv7"
    ELSE IF Contains(platform, "ppc64le") THEN "ppc64le"
    ELSE IF Contains(platform, "s390x") THEN "s390x"
    ELSE IF Contains(platform, "i686") \/ Contains(platform, "x86")
            \/ Contains(platform, "i386") THEN "x86"
    ELSE "unknown"

\* A plausible slip: one ARM64 spelling used for every OS family.
PlatformName_unifiedArm(info) ==
    LET platform == Lower(info.platform_tag) IN
    IF StartsWith(platform, "macosx") THEN
        IF Contains(platform, "arm64") \/ Contains(platform, "aarch64") THEN "macOS aarch64"
        ELSE IF Contains(platform, "x86_64") \/ Contains(platform, "intel") THEN "macOS x86_64"
        ELSE IF Contains(platform, "universal2") THEN "macOS Universal2"
        ELSE "macOS"
    ELSE IF StartsWith(platform, "win") THEN
        IF Contains(platform, "amd64") \/ Contains(platform, "x64") THEN "Windows x64"
        ELSE IF Contains(platform, "arm64") \/ Contains(platform, "aarch64") THEN "Windows aarch64"
        ELSE IF Contains(platform, "32") \/ Contains(platform, "x86") THEN "Windows x86"
        ELSE "Windows"
    ELSE IF Contains(platform, "manylinux") THEN "Linux " \o ExtractArch(platform)
    ELSE IF Contains(platform, "musllinux") THEN "musllinux " \o ExtractArch(platform)
    ELSE IF Contains(platform, "linux") THEN "Linux " \o ExtractArch(platform)
    ELSE platform

PlatformName(info) ==
    LET platform == Lower(info.platform_tag) IN
    IF StartsWith(platform, "macosx") THEN
        IF Contains(platform, "arm64") \/ Contains(platform, "aarch64") THEN "macOS ARM64"
        ELSE IF Contains(platform, "x86_64") \/ Contains(platform, "intel") THEN "macOS x86_64"
        ELSE IF Contains(platform, "universal2") THEN "macOS Universal2"
        ELSE "macOS"
    ELSE IF StartsWith(platform, "win") THEN
        IF Contains(platform, "amd64") \/ Contains(platform, "x64") THEN "Windows x64"
        ELSE IF Contains(platform, "arm64") \/ Contains(platform, "aarch64") THEN "Windows ARM64"
        ELSE IF Contains(platform, "32") \/ Contains(platform, "x86") THEN "Windows x86"
        ELSE "Windows"
    ELSE IF Contains(platform, "manylinux") THEN "Linux " \o ExtractArch(platform)
    ELSE IF Contains(platform, "musllinux") THEN "musllinux " \o ExtractArch(platform)
    ELSE IF Contains(platform, "linux") THEN "Linux " \o ExtractArch(platform)
    ELSE platform

---------------------------------------------------------------------------
(* Idle values of the variables an operation does not use.                 *)

EmptyMatrix == [p \in {} |-> {}]

NoResult == [raised |-> "", ok |-> TRUE, errors |-> <<>>]

IdleParse ==
    /\ filename = ""
    /\ wheel_info = NoneInfo
    /\ python_version = ""
    /\ platform_name = ""

IdleScan ==
    /\ wheel_files = <<>>
    /\ idx = 0
    /\ matrix = EmptyMatrix
    /\ platforms = {}
    /\ versions = {}

IdleResolve ==
    /\ requirement = ""
    /\ available_versions = {}
    /\ resolved = <<>>

IdleValidate ==
    /\ require_platforms = ""
    /\ require_python_versions = ""
    /\ require_freethreaded = "none"
    /\ require_matrix = ""
    /\ result = NoResult

IdleSort == sorted_versions = <<>>

\* The exit status of a process that has not exited.
Running == -1

IdleMain ==
    /\ path_exists = TRUE
    /\ fail_on_missing = "true"
    /\ stderr = <<>>
    /\ summary = <<>>
    /\ exit_status = Running

---------------------------------------------------------------------------
(* The filename parser applied to generated filenames.                     *)

SegTokens == {"pkg", "cp312", "a.whl", ""}

Exts == {".whl", ".tar.gz", ".WHL", ""}

RECURSIVE SeqsUpTo(_, _)
SeqsUpTo(S, n) ==
    IF n = 0 THEN {<<>>}
    ELSE LET R == SeqsUpTo(S, n - 1) IN
         R \cup {<<x>> \o r : x \in S, r \in {q \in R : Len(q) = n - 1}}

Filenames == {Join(segs, "-") \o e : segs \in SeqsUpTo(SegTokens, MaxSegments), e \in Exts}

InitParse ==
    /\ pc = "parse"
    /\ filename \in Filenames
    /\ wheel_info = NoneInfo
    /\ python_version = ""
    /\ platform_name = ""
    /\ IdleScan /\ IdleResolve /\ IdleValidate /\ IdleSort /\ IdleMain

ParseWheelFilename ==
    /\ pc = "parse"
    /\ wheel_info' = parse_wheel_filename(filename)
    /\ pc' = "parsed"
    /\ UNCHANGED <<filename, python_version, platform_name>>
    /\ UNCHANGED <<scanVars, resolveVars, validateVars, sortVars, mainVars>>

NextParse == ParseWheelFilename

SpecParse == InitParse /\ [][NextParse]_vars

---------------------------------------------------------------------------
(* The tag decoder applied to generated raw triples.                       *)

RECURSIVE DigitStrings(_)
DigitStrings(n) ==
    IF n = 0 THEN {""}
    ELSE LET S == DigitStrings(n - 1) IN S \cup {d \o s : d \in {"3", "1", "4"}, s \in S}

RuntimeTags ==
    {p \o d \o s : p \in {"cp", "pp", "py", "CP", ""},
                   d \in DigitStrings(MaxDigits),
                   s \in {"", "t", "tx", "_d"}}

AbiTags == {"cp314t", "cp314", "cp31t", "cp3t", "none", "abi3", "pypy39_pp73"}

OsFrags ==
    {"macosx_11_0_", "MacOSX_10_9_", "win_", "win", "WIN_", "manylinux_2_17_",
     "manylinux2014_", "musllinux_1_2_", "linux_", "Linux_", "any", "freebsd_",
     "win_manylinux_", "macosx_musllinux_", "xwin_", "manylinux_2_17_x86_64.musllinux_1_1_"}

ArchFrags ==
    {"x86_64", "amd64", "arm64", "ARM64", "aarch64", "armv7l", "ppc64le", "s390x",
     "i686", "x86", "i386", "32", "x64", "universal2", "intel", "riscv64", ""}

PlatformTags == {o \o a : o \in OsFrags, a \in ArchFrags}

RawTriples ==
    {WheelInfo(r, a, "linux_x86_64") : r \in RuntimeTags, a \in AbiTags}
      \cup {WheelInfo("cp312", "cp312", p) : p \in PlatformTags}

InitDecode ==
    /\ pc = "decode"
    /\ filename = ""
    /\ wheel_info \in RawTriples
    /\ python_version = ""
    /\ platform_name = ""
    /\ IdleScan /\ IdleResolve /\ IdleValidate /\ IdleSort /\ IdleMain

Decode ==
    /\ pc = "decode"
    /\ python_version' = PythonVersion(wheel_info)
    /\ platform_name' = PlatformName(wheel_info)
    /\ pc' = "decoded"
    /\ UNCHANGED <<filename, wheel_info>>
    /\ UNCHANGED <<scanVars, resolveVars, validateVars, sortVars, mainVars>>

NextDecode == Decode

SpecDecode == InitDecode /\ [][NextDecode]_vars

---------------------------------------------------------------------------
(* Claims about the filename parser and the tag decoder.                   *)

SetMax(S) == CHOOSE x \in S : \A y \in S : y <= x

SetMin(S) == CHOOSE x \in S : \A y \in S : x <= y

DashPositions(name) == {i \in 1..Len(name) : Char(name, i) = "-"}

\* C1: parse_wheel_filename returns no-match for every filename that does
\* not end in ".whl" or that has fewer than 5 '-'-separated segments once the
\* extension is stripped; for every other filename it returns the text
\* between the last three separators and the end, in the order (runtime tag,
\* abi tag, platform tag), whatever precedes them.
ThmC1_ParseRightAnchored ==
    pc = "parsed" =>
        IF ~EndsWith(filename, ".whl") THEN wheel_info = NoneInfo
        ELSE LET name == SubSeq(filename, 1, Len(filename) - 4)
                 dashes == DashPositions(name)
             IN IF Cardinality(dashes) + 1 < 5 THEN wheel_info = NoneInfo
                ELSE LET d1 == SetMax(dashes)
                         d2 == SetMax(dashes \ {d1})
                         d3 == SetMax(dashes \ {d1, d2})
                     IN /\ wheel_info.found
                        /\ wheel_info.python_tag = SubSeq(name, d3 + 1, d2 - 1)
                        /\ wheel_info.abi_tag = SubSeq(name, d2 + 1, d1 - 1)
                        /\ wheel_info.platform_tag = SubSeq(name, d1 + 1, Len(name))

\* A filename of more than 5 segments whose tags are recognized from the right.
WitC1_ExtraLeadingSegments ==
    /\ pc = "parsed"
    /\ filename = "a.whl-pkg--cp312-pkg-a.whl.whl"
    /\ wheel_info = WheelInfo("cp312", "pkg", "a.whl")

\* The lengths k of a minor group for which prefix, one digit, k digits and
\* then (t = TRUE) a "t" or (t = FALSE) no further digit start the tag.
MinorLens(prefix, tag, t) ==
    LET n == Len(prefix) IN
    {k \in 1..Len(tag) :
        /\ StartsWith(tag, prefix)
        /\ \A j \in (n + 1)..(n + 1 + k) : IsDigit(Char(tag, j))
        /\ IF t THEN Char(tag, n + 2 + k) = "t" ELSE ~IsDigit(Char(tag, n + 2 + k))}

LabelOf(prefix, tag, t) ==
    LET n == Len(prefix)
        k == CHOOSE k \in MinorLens(prefix, tag, t) : TRUE
    IN Char(tag, n + 1) \o "." \o SubSeq(tag, n + 2, n + 1 + k)

\* C2: the version label is the result of the first rule that matches:
\* runtime tag cp<digit><digits>t, abi tag cp<digit><digits>t, runtime tag
\* cp<digit><digits>, runtime tag pp<digit><digits> (prefixed "PyPy"), else
\* the runtime tag verbatim; the major is exactly one digit, and runtime tag
\* cp314 with abi tag cp314t decodes to "3.14t".
ThmC2_VersionRulePriority ==
    pc = "decoded" =>
        LET py == wheel_info.python_tag
            abi == wheel_info.abi_tag
        IN /\ IF MinorLens("cp", py, TRUE) # {}
                 THEN /\ python_version = LabelOf("cp", py, TRUE) \o "t"
                      /\ Char(python_version, 2) = "."
              ELSE IF MinorLens("cp", abi, TRUE) # {}
                 THEN /\ python_version = LabelOf("cp", abi, TRUE) \o "t"
                      /\ Char(python_version, 2) = "."
              ELSE IF MinorLens("cp", py, FALSE) # {}
                 THEN /\ python_version = LabelOf("cp", py, FALSE)
                      /\ Char(python_version, 2) = "."
              ELSE IF MinorLens("pp", py, FALSE) # {}
                 THEN /\ python_version = "PyPy" \o LabelOf("pp", py, FALSE)
                      /\ Char(python_version, 6) = "."
              ELSE python_version = py
           /\ (py = "cp314" /\ abi = "cp314t") => python_version = "3.14t"

WitC2_AbiOnlyFreeThreaded ==
    /\ pc = "decoded"
    /\ wheel_info.python_tag = "cp314"
    /\ wheel_info.abi_tag = "cp314t"
    /\ python_version = "3.14t"

ArchTable ==
    << <<{"x86_64", "amd64"}, "x86_64">>,
       <<{"aarch64", "arm64"}, "aarch64">>,
       <<{"armv7", "armv7l"}, "armv7">>,
       <<{"ppc64le"}, "ppc64le">>,
       <<{"s390x"}, "s390x">>,
       <<{"i686", "x86", "i386"}, "x86">> >>

FirstArch(t) ==
    LET hits == {i \in 1..Len(ArchTable) : \E s \in ArchTable[i][1] : Contains(t, s)}
    IN IF hits = {} THEN "unknown" ELSE ArchTable[SetMin(hits)][2]

OsFamily(t) ==
    IF StartsWith(t, "macosx") THEN "macOS"
    ELSE IF StartsWith(t, "win") THEN "Windows"
    ELSE IF Contains(t, "manylinux") THEN "Linux"
    ELSE IF Contains(t, "musllinux") THEN "musllinux"
    ELSE IF Contains(t, "linux") THEN "Linux"
    ELSE "other"

\* C3: the platform label follows the first matching rule on the lower-cased
\* tag (macosx prefix, win prefix, manylinux, musllinux, linux, else the
\* lower-cased tag); a Linux-family label carries the first architecture of
\* the shared list; ARM64 is spelled "ARM64" in macOS and Windows labels and
\* "aarch64" in Linux and musllinux labels, never the other way round.
ThmC3_PlatformRulePriority ==
    pc = "decoded" =>
        LET t == Lower(wheel_info.platform_tag)
            fam == OsFamily(t)
            arm == Contains(t, "arm64") \/ Contains(t, "aarch64")
        IN /\ fam = "macOS" =>
                /\ platform_name \in {"macOS", "macOS ARM64", "macOS x86_64", "macOS Universal2"}
                /\ arm => platform_name = "macOS ARM64"
           /\ fam = "Windows" =>
                /\ platform_name \in {"Windows", "Windows ARM64", "Windows x64", "Windows x86"}
                /\ (arm /\ ~Contains(t, "amd64") /\ ~Contains(t, "x64"))
                      => platform_name = "Windows ARM64"
           /\ fam \in {"Linux", "musllinux"} =>
                /\ platform_name = fam \o " " \o FirstArch(t)
                /\ ~Contains(platform_name, "ARM64")
           /\ fam = "other" => platform_name = t
           /\ wheel_info.platform_tag = "win_arm64" => platform_name = "Windows ARM64"
           /\ wheel_info.platform_tag = "manylinux_2_17_aarch64"
                 => platform_name = "Linux aarch64"

WitC3_WindowsArm64 ==
    /\ pc = "decoded"
    /\ wheel_info.platform_tag = "win_arm64"
    /\ platform_name = "Windows ARM64"

---------------------------------------------------------------------------
(* scan_wheels: one loop iteration per name the directory walk yields.     *)

\* A plausible slip: the entry of a platform overwritten instead of extended.
MatrixAdd_overwrite(m, platform, version) ==
    [p \in DOMAIN m \cup {platform} |-> IF p = platform THEN {version} ELSE m[p]]

\* matrix[platform].add(version) on a defaultdict(set)
MatrixAdd(m, platform, version) ==
    [p \in DOMAIN m \cup {platform} |->
        (IF p \in DOMAIN m THEN m[p] ELSE {}) \cup (IF p = platform THEN {version} ELSE {})]

\* rglob("*.whl") yields only names that end in ".whl".
ScanFiles ==
    {"pkg-1.0.0-cp312-cp312-manylinux_2_17_x86_64.whl",
     "pkg-1.0.0-1-cp312-cp312-linux_x86_64.whl",
     "pkg-1.0.0-cp313-cp313-manylinux_2_17_x86_64.whl",
     "pkg-1.0.0-cp312-cp312-win_amd64.whl",
     "pkg-1.0.0-cp314-cp314t-macosx_11_0_arm64.whl",
     "pkg-1.0.0-pp39-pypy39_pp73-linux_x86_64.whl",
     "invalid.whl",
     "pkg-1.0.0-py3-none.whl"}

InitScan ==
    /\ pc = "scan"
    /\ wheel_files \in SeqsUpTo(ScanFiles, MaxFiles)
    /\ idx = 0
    /\ matrix = EmptyMatrix
    /\ platforms = {}
    /\ versions = {}
    /\ IdleParse /\ IdleResolve /\ IdleValidate /\ IdleSort /\ IdleMain

ScanStep ==
    /\ pc = "scan"
    /\ idx < Len(wheel_files)
    /\ LET info == parse_wheel_filename(wheel_files[idx + 1]) IN
       IF ~info.found
       THEN UNCHANGED <<matrix, platforms, versions>>
       ELSE LET platform == PlatformName(info)
                version == PythonVersion(info)
            IN /\ platforms' = platforms \cup {platform}
               /\ versions' = versions \cup {version}
               /\ matrix' = MatrixAdd(matrix, platform, version)
    /\ idx' = idx + 1
    /\ UNCHANGED <<pc, wheel_files>>
    /\ UNCHANGED <<parseVars, resolveVars, validateVars, sortVars, mainVars>>

ScanReturn ==
    /\ pc = "scan"
    /\ idx = Len(wheel_files)
    /\ pc' = "scanned"
    /\ UNCHANGED <<scanVars, parseVars, resolveVars, validateVars, sortVars, mainVars>>

NextScan == ScanStep \/ ScanReturn

SpecScan == InitScan /\ [][NextScan]_vars

Range(f) == {f[i] : i \in DOMAIN f}

\* The (platform, version) cells of the recognized names of a sequence.
Cells(files) ==
    {<<PlatformName(w), PythonVersion(w)>> :
        w \in {i \in {parse_wheel_filename(f) : f \in Range(files)} : i.found}}

\* C4: once the matrix is built, v is in the entry of p exactly when some
\* recognized filename decodes to (p, v); the platform set is the set of
\* keys, the version set is the union of the entries, and no entry is empty;
\* so the result is a function of the set of recognized cells alone.
ThmC4_MatrixIsCellSet ==
    pc = "scanned" =>
        LET cells == Cells(wheel_files) IN
        /\ DOMAIN matrix = {c[1] : c \in cells}
        /\ platforms = DOMAIN matrix
        /\ versions = {c[2] : c \in cells}
        /\ versions = UNION {matrix[p] : p \in DOMAIN matrix}
        /\ \A p \in DOMAIN matrix :
              /\ matrix[p] # {}
              /\ matrix[p] = {c[2] : c \in {d \in cells : d[1] = p}}

\* Three names, one of them unrecognized, two of them on the same platform.
WitC4_SkippedAndMerged ==
    /\ pc = "scanned"
    /\ Len(wheel_files) = 3
    /\ wheel_files[2] = "invalid.whl"
    /\ "Linux x86_64" \in DOMAIN matrix
    /\ matrix["Linux x86_64"] = {"3.12", "PyPy3.9"}

---------------------------------------------------------------------------
(* parse_version_requirement                                               *)

DigitString == "0123456789"

DigitVal(c) == (CHOOSE k \in 1..10 : Char(DigitString, k) = c) - 1

\* int(s) for a non-empty string of digits
RECURSIVE ParseInt(_)
ParseInt(s) ==
    IF Len(s) = 0 THEN 0
    ELSE 10 * ParseInt(SubSeq(s, 1, Len(s) - 1)) + DigitVal(Char(s, Len(s)))

\* str(n) for n >= 0
RECURSIVE Str(_)
Str(n) ==
    IF n < 10 THEN Char(DigitString, n + 1)
    ELSE Str(n \div 10) \o Char(DigitString, (n % 10) + 1)

\* str.strip() on spaces
RECURSIVE Strip(_)
Strip(s) ==
    IF StartsWith(s, " ") THEN Strip(Tail(s))
    ELSE IF EndsWith(s, " ") THEN Strip(SubSeq(s, 1, Len(s) - 1))
    ELSE s

NoVersion == [matched |-> FALSE, major |-> 0, minor |-> 0]

\* re.match(prefix + r"(\d+)\.(\d+)", s) with both groups through int():
\* anchored at the start only, each group the whole digit run.
MatchVersion(prefix, s) ==
    LET n == Len(prefix)
        a == DigitRun(s, n + 1)
        b == DigitRun(s, n + a + 2)
    IN IF StartsWith(s, prefix) /\ a >= 1 /\ Char(s, n + a + 1) = "." /\ b >= 1
       THEN [matched |-> TRUE,
             major |-> ParseInt(SubSeq(s, n + 1, n + a)),
             minor |-> ParseInt(SubSeq(s, n + a + 2, n + a + 1 + b))]
       ELSE NoVersion

\* A plausible slip: the list ends one minor early.
RangeLabels_shortByOne(prefix, major, lo, stop) ==
    [i \in 1..(stop - 1 - lo) |-> prefix \o Str(major) \o "." \o Str(lo + i - 1)]

\* [f"{prefix}{major}.{minor}" for minor in range(lo, stop)]
RangeLabels(prefix, major, lo, stop) ==
    [i \in 1..(stop - lo) |-> prefix \o Str(major) \o "." \o Str(lo + i - 1)]

\* A plausible slip: the major of an observed version not compared.
HighestMinor_anyMajor(prefix, major, minor_start, available) ==
    LET ms == {MatchVersion(prefix, ver).minor :
                  ver \in {v \in available : MatchVersion(prefix, v).matched}}
    IN SetMax(ms \cup {minor_start})

\* max_minor after the loop over available_versions
HighestMinor(prefix, major, minor_start, available) ==
    LET ms == {MatchVersion(prefix, ver).minor :
                  ver \in {v \in available : /\ MatchVersion(prefix, v).matched
                                             /\ MatchVersion(prefix, v).major = major}}
    IN SetMax(ms \cup {minor_start})

\* A plausible slip: the end of a range left out.
ExpandRange_exclusive(prefix, major, minor_start, minor_end) ==
    RangeLabels(prefix, major, minor_start, minor_end)

\* the list comprehension of a range token: range(minor_start, minor_end + 1)
ExpandRange(prefix, major, minor_start, minor_end) ==
    RangeLabels(prefix, major, minor_start, minor_end + 1)

CountChar(s, c) == Cardinality({i \in 1..Len(s) : Char(s, i) = c})

\* 1-based position of the first occurrence of c in s (c occurs in s)
IndexOf(s, c) == SetMin({i \in 1..Len(s) : Char(s, i) = c})

\* str.split(c, 1) when c occurs in s
SplitOnce(s, c) ==
    LET i == IndexOf(s, c) IN <<SubSeq(s, 1, i - 1), SubSeq(s, i + 1, Len(s))>>

parse_version_requirement(raw, available) ==
    LET req == Strip(raw)
        start == Strip(SubSeq(req, 1, Len(req) - 1))
    IN
    IF StartsWith(req, "PyPy") THEN
        IF EndsWith(req, "+") /\ MatchVersion("PyPy", start).matched THEN
            LET m == MatchVersion("PyPy", start) IN
            RangeLabels("PyPy", m.major, m.minor,
                        HighestMinor("PyPy", m.major, m.minor, available) + 2)
        ELSE IF /\ Contains(req, "-")
                /\ CountChar(req, "-") = 1
                /\ IndexOf(req, "-") - 1 > 4
                /\ MatchVersion("PyPy", Strip(SplitOnce(req, "-")[1])).matched
                /\ MatchVersion("", Strip(SplitOnce(req, "-")[2])).matched THEN
            LET sm == MatchVersion("PyPy", Strip(SplitOnce(req, "-")[1]))
                em == MatchVersion("", Strip(SplitOnce(req, "-")[2]))
            IN ExpandRange("PyPy", sm.major, sm.minor, em.minor)
        ELSE <<req>>
    ELSE IF EndsWith(req, "+") /\ MatchVersion("", start).matched THEN
        LET m == MatchVersion("", start) IN
        RangeLabels("", m.major, m.minor,
                    HighestMinor("", m.major, m.minor, available) + 2)
    ELSE IF /\ Contains(req, "-")
            /\ MatchVersion("", Strip(SplitOnce(req, "-")[1])).matched
            /\ MatchVersion("", Strip(SplitOnce(req, "-")[2])).matched THEN
        LET sm == MatchVersion("", Strip(SplitOnce(req, "-")[1]))
            em == MatchVersion("", Strip(SplitOnce(req, "-")[2]))
        IN ExpandRange("", sm.major, sm.minor, em.minor)
    ELSE <<req>>

---------------------------------------------------------------------------
(* The resolver applied to generated tokens and observed version sets.     *)

Majors == {2, 3}

Minors == 9..MaxMinor

Dotted(M, m) == Str(M) \o "." \o Str(m)

\* Labels the decoder produces: standard, free-threaded, PyPy, verbatim.
Labels ==
    {Dotted(M, m) : M \in Majors, m \in Minors}
      \cup {Dotted(3, m) \o "t" : m \in Minors}
      \cup {"PyPy" \o Dotted(3, m) : m \in Minors}
      \cup {"PyPy" \o Dotted(2, MaxMinor), "py3"}

ObservedSets == {S \in SUBSET Labels : Cardinality(S) <= MaxObserved}

OpenTokens == {pre \o Dotted(3, m) \o "+" : pre \in {"", "PyPy"}, m \in Minors}

RangeTokens ==
    {pre \o Dotted(3, a) \o "-" \o Dotted(M2, b) :
        pre \in {"", "PyPy"}, a \in Minors, M2 \in Majors, b \in Minors}

SingleTokens == {pre \o Dotted(3, m) : pre \in {"", "PyPy"}, m \in Minors}

OddTokens ==
    {"latest", "3.x+", "+", "PyPy+", "3.9t+", "3.9 - 3.10", "PyPy3.9-3.10-3.11",
     "3.9-", " 3.10+ ", "3-9", "PyPy-3.9", "3.11t"}

Tokens == OpenTokens \cup RangeTokens \cup SingleTokens \cup OddTokens

\* The calls of TestParseVersionRequirement.
TestCalls ==
    {<<"3.12+", {"3.12", "3.13", "3.14"}>>,
     <<"3.10-3.13", {"3.12", "3.13", "3.14"}>>,
     <<"PyPy3.9+", {"PyPy3.9", "PyPy3.10", "PyPy3.11"}>>,
     <<"PyPy3.9-3.11", {"PyPy3.9", "PyPy3.10", "PyPy3.11"}>>}

InitResolve ==
    /\ pc = "resolve"
    /\ \/ requirement \in Tokens /\ available_versions \in ObservedSets
       \/ \E c \in TestCalls : requirement = c[1] /\ available_versions = c[2]
    /\ resolved = <<>>
    /\ IdleParse /\ IdleScan /\ IdleValidate /\ IdleSort /\ IdleMain

ParseVersionRequirement ==
    /\ pc = "resolve"
    /\ resolved' = parse_version_requirement(requirement, available_versions)
    /\ pc' = "resolved"
    /\ UNCHANGED <<requirement, available_versions>>
    /\ UNCHANGED <<parseVars, scanVars, validateVars, sortVars, mainVars>>

NextResolve == ParseVersionRequirement

SpecResolve == InitResolve /\ [][NextResolve]_vars

\* The minors n for which an observed version reads prefix, M, ".", n and
\* then no further digit: the versions of the dialect of prefix and of major
\* M. A free-threaded label "M.nt" is a version of the standard dialect.
ObservedMinors(prefix, M, available) ==
    {n \in 0..(MaxMinor + 4) :
        \E v \in available :
            LET head == prefix \o Dotted(M, n) IN
            StartsWith(v, head) /\ ~IsDigit(Char(v, Len(head) + 1))}

\* C5: an open-ended token "<M>.<m>+" or "PyPy<M>.<m>+" resolves to the
\* labels of its dialect and major with minors m, ..., k + 1 ascending, k
\* the largest minor observed for that dialect and major and at least m;
\* labels of the other dialect or of another major do not move the bound;
\* observed {3.12, 3.13, 3.14} and "3.12+" give [3.12, 3.13, 3.14, 3.15].
ThmC5_OpenEndedBound ==
    pc = "resolved" =>
        /\ \A pre \in {"", "PyPy"}, M \in Majors, m \in 9..(MaxMinor + 4) :
              requirement = pre \o Dotted(M, m) \o "+" =>
                 LET k == SetMax(ObservedMinors(pre, M, available_versions) \cup {m}) IN
                 /\ Len(resolved) = k + 1 - m + 1
                 /\ \A i \in 1..Len(resolved) : resolved[i] = pre \o Dotted(M, m + i - 1)
        /\ (requirement = "3.12+" /\ available_versions = {"3.12", "3.13", "3.14"})
              => resolved = <<"3.12", "3.13", "3.14", "3.15">>

\* An open-ended standard token whose bound is set by an observed
\* free-threaded label while a higher PyPy label is observed as well.
WitC5_BoundFromSameDialect ==
    /\ pc = "resolved"
    /\ requirement = "3.9+"
    /\ available_versions = {"3.10t", "PyPy3.11"}
    /\ resolved = <<"3.9", "3.10", "3.11">>

\* C6: a range token "<M>.<a>-<M'>.<b>" or "PyPy<M>.<a>-<M'>.<b>" resolves
\* to the labels of the start part's major and dialect for every minor from
\* a to b inclusive, ascending, whatever the observed version set is.
ThmC6_RangeInclusive ==
    pc = "resolved" =>
        \A pre \in {"", "PyPy"}, M \in Majors, a \in 9..(MaxMinor + 4) :
           StartsWith(requirement, pre \o Dotted(M, a) \o "-") =>
              \A M2 \in Majors, b \in 9..(MaxMinor + 4) :
                 requirement = pre \o Dotted(M, a) \o "-" \o Dotted(M2, b) =>
                    /\ Len(resolved) = IF b >= a THEN b - a + 1 ELSE 0
                    /\ \A i \in 1..Len(resolved) :
                          resolved[i] = pre \o Dotted(M, a + i - 1)

WitC6_AltRangeWithObserved ==
    /\ pc = "resolved"
    /\ requirement = "PyPy3.9-3.11"
    /\ available_versions = {"PyPy3.9", "PyPy3.10", "PyPy3.11"}
    /\ resolved = <<"PyPy3.9", "PyPy3.10", "PyPy3.11">>

---------------------------------------------------------------------------
(* json.loads, on the JSON texts used here: strings without escapes,       *)
(* unsigned numbers, null, true, false, arrays and objects, spaces between *)
(* tokens. A value is a record tagged by t; a failed parse is              *)
(* json.JSONDecodeError.                                                   *)

JsonFail == [ok |-> FALSE, val |-> [t |-> "null"], pos |-> 0]

JsonOk(v, pos) == [ok |-> TRUE, val |-> v, pos |-> pos]

StrVal(x) == [t |-> "str", s |-> x]

EmptyDict == [t |-> "dict", keys |-> <<>>, get |-> [k \in {} |-> 0]]

RECURSIVE SkipWs(_, _)
SkipWs(s, i) == IF Char(s, i) = " " THEN SkipWs(s, i + 1) ELSE i

JsonString(s, i) ==
    LET ends == {j \in (i + 1)..Len(s) : Char(s, j) = "\""} IN
    IF ends = {} THEN JsonFail
    ELSE JsonOk(StrVal(SubSeq(s, i + 1, SetMin(ends) - 1)), SetMin(ends) + 1)

JsonNumber(s, i) ==
    LET a == DigitRun(s, i)
        b == IF Char(s, i + a) = "." THEN DigitRun(s, i + a + 1) ELSE 0
        n == IF b >= 1 THEN a + 1 + b ELSE a
    IN JsonOk([t |-> "num", s |-> SubSeq(s, i, i + n - 1)], i + n)

RECURSIVE JsonValue(_, _), JsonItems(_, _, _), JsonMembers(_, _, _)

JsonValue(s, i0) ==
    LET i == SkipWs(s, i0)
        c == Char(s, i)
    IN IF c = "\"" THEN JsonString(s, i)
       ELSE IF IsDigit(c) THEN JsonNumber(s, i)
       ELSE IF c = "[" THEN
           IF Char(s, SkipWs(s, i + 1)) = "]"
           THEN JsonOk([t |-> "list", items |-> <<>>], SkipWs(s, i + 1) + 1)
           ELSE JsonItems(s, i + 1, <<>>)
       ELSE IF c = "{" THEN
           IF Char(s, SkipWs(s, i + 1)) = "}"
           THEN JsonOk(EmptyDict, SkipWs(s, i + 1) + 1)
           ELSE JsonMembers(s, i + 1, EmptyDict)
       ELSE IF StartsWith(SubSeq(s, i, Len(s)), "null") THEN JsonOk([t |-> "null"], i + 4)
       ELSE IF StartsWith(SubSeq(s, i, Len(s)), "true")
            THEN JsonOk([t |-> "bool", b |-> TRUE], i + 4)
       ELSE IF StartsWith(SubSeq(s, i, Len(s)), "false")
            THEN JsonOk([t |-> "bool", b |-> FALSE], i + 5)
       ELSE JsonFail

JsonItems(s, i, acc) ==
    LET r == JsonValue(s, i) IN
    IF ~r.ok THEN JsonFail
    ELSE LET j == SkipWs(s, r.pos) IN
         IF Char(s, j) = "," THEN JsonItems(s, j + 1, Append(acc, r.val))
         ELSE IF Char(s, j) = "]"
              THEN JsonOk([t |-> "list", items |-> Append(acc, r.val)], j + 1)
         ELSE JsonFail

JsonMembers(s, i, d) ==
    LET k == IF Char(s, SkipWs(s, i)) = "\"" THEN JsonString(s, SkipWs(s, i)) ELSE JsonFail IN
    IF ~k.ok \/ Char(s, SkipWs(s, k.pos)) # ":" THEN JsonFail
    ELSE LET r == JsonValue(s, SkipWs(s, k.pos) + 1) IN
         IF ~r.ok THEN JsonFail
         ELSE LET j == SkipWs(s, r.pos)
                  key == k.val.s
                  d2 == [t |-> "dict",
                         keys |-> IF key \in DOMAIN d.get THEN d.keys ELSE Append(d.keys, key),
                         get |-> (key :> r.val) @@ d.get]
              IN IF Char(s, j) = "," THEN JsonMembers(s, j + 1, d2)
                 ELSE IF Char(s, j) = "}" THEN JsonOk(d2, j + 1)
                 ELSE JsonFail

json_loads(s) ==
    LET r == JsonValue(s, 1) IN
    IF r.ok /\ SkipWs(s, r.pos) > Len(s) THEN r ELSE JsonFail

\* bool(v) is False
Falsy(v) ==
    CASE v.t = "str" -> v.s = ""
      [] v.t = "num" -> \A i \in 1..Len(v.s) : Char(v.s, i) \in {"0", "."}
      [] v.t = "null" -> TRUE
      [] v.t = "bool" -> ~v.b
      [] v.t = "list" -> v.items = <<>>
      [] v.t = "dict" -> v.keys = <<>>

\* d.get(key, "")
DictGet(d, key) == IF key \in DOMAIN d.get THEN d.get[key] ELSE StrVal("")

---------------------------------------------------------------------------
(* fnmatch.fnmatch(name, pat) on POSIX (no case folding), for patterns of  *)
(* literal characters, "*" and "?" (no "[" class).                         *)

RECURSIVE Glob(_, _, _, _)
Glob(name, i, pat, j) ==
    IF j > Len(pat) THEN i > Len(name)
    ELSE LET c == Char(pat, j) IN
         IF c = "*" THEN Glob(name, i, pat, j + 1)
                         \/ (i <= Len(name) /\ Glob(name, i + 1, pat, j))
         ELSE IF c = "?" THEN i <= Len(name) /\ Glob(name, i + 1, pat, j + 1)
         ELSE i <= Len(name) /\ Char(name, i) = c /\ Glob(name, i + 1, pat, j + 1)

\* A plausible slip: the pattern searched for anywhere in the label,
\* letter case ignored.
fnmatch_unanchored(name, pat) == Glob(Lower(name), 1, "*" \o Lower(pat), 1)

fnmatch(name, pat) == Glob(name, 1, pat, 1)

---------------------------------------------------------------------------
(* validate_requirements. The iteration order of the sets platforms and    *)
(* versions is not fixed by the language: porder and vorder are the        *)
(* orders in which this run enumerates them.                               *)

Raised(e) == [raised |-> e, ok |-> FALSE, errors |-> <<>>]

\* A plausible slip: a return that reports success whatever was collected.
Returned_alwaysOk(errors) == [raised |-> "", ok |-> TRUE, errors |-> errors]

Returned(errors) == [raised |-> "", ok |-> errors = <<>>, errors |-> errors]

NonEmpty(x) == x # ""

\* [x.strip() for x in text.split(",") if x.strip()]
SplitList(text) ==
    LET parts == Split(text, ",") IN
    SelectSeq([i \in 1..Len(parts) |-> Strip(parts[i])], NonEmpty)

RECURSIVE ConcatAll(_)
ConcatAll(ss) == IF ss = <<>> THEN <<>> ELSE Head(ss) \o ConcatAll(Tail(ss))

\* required_versions after the extend loop
ResolveList(text, vers) ==
    LET raw == SplitList(text) IN
    ConcatAll([i \in 1..Len(raw) |-> parse_version_requirement(raw[i], vers)])

\* The messages of one record for its matching platforms, in order.
RECURSIVE PlatformErrors(_, _, _)
PlatformErrors(matching, required, m) ==
    IF matching = <<>> THEN <<>>
    ELSE LET platform == Head(matching)
             platform_versions == IF platform \in DOMAIN m THEN m[platform] ELSE {}
             NotCovered(v) == v \notin platform_versions
             missing == SelectSeq(required, NotCovered)
         IN (IF missing # <<>>
             THEN <<"Platform '" \o platform \o "' missing required versions: "
                      \o Join(missing, ", ")>>
             ELSE <<>>)
            \o PlatformErrors(Tail(matching), required, m)

\* The loop over the parsed matrix requirements, from item i on.
RECURSIVE MatrixLoop(_, _, _, _, _, _)
MatrixLoop(items, i, errors, m, porder, vers) ==
    IF i > Len(items) THEN Returned(errors)
    ELSE LET req == items[i] IN
         IF req.t # "dict" THEN Raised("AttributeError")
         ELSE LET platform_pattern == DictGet(req, "platform")
                  required_versions_str == DictGet(req, "versions")
              IN IF Falsy(platform_pattern)
                 THEN MatrixLoop(items, i + 1, errors, m, porder, vers)
                 ELSE IF platform_pattern.t # "str" THEN Raised("TypeError")
                 ELSE LET Matches(p) == fnmatch(p, platform_pattern.s)
                          matching_platforms == SelectSeq(porder, Matches)
                      IN IF matching_platforms = <<>>
                         THEN MatrixLoop(items, i + 1,
                                  Append(errors, "No platforms found matching pattern: "
                                                    \o platform_pattern.s),
                                  m, porder, vers)
                         ELSE IF required_versions_str.t # "str"
                              THEN Raised("AttributeError")
                         ELSE MatrixLoop(items, i + 1,
                                  errors \o PlatformErrors(matching_platforms,
                                               ResolveList(required_versions_str.s, vers), m),
                                  m, porder, vers)

\* What "for req in matrix_requirements" iterates over.
IterItems(v) ==
    CASE v.t = "list" -> v.items
      [] v.t = "dict" -> [i \in 1..Len(v.keys) |-> StrVal(v.keys[i])]
      [] v.t = "str" -> [i \in 1..Len(v.s) |-> StrVal(Char(v.s, i))]

MatrixValidation(m, porder, vers, rm) ==
    LET parsed == json_loads(rm) IN
    IF ~parsed.ok THEN
        [raised |-> "", ok |-> FALSE,
         errors |-> <<"Invalid JSON in require-matrix: " \o rm>>]
    ELSE IF parsed.val.t \in {"num", "null", "bool"} THEN Raised("TypeError")
    ELSE MatrixLoop(IterItems(parsed.val), 1, <<>>, m, porder, vers)

PlatformsErrors(plats, rp) ==
    LET NotObserved(p) == p \notin plats
        missing_platforms == SelectSeq(SplitList(rp), NotObserved)
    IN IF rp # "" /\ missing_platforms # <<>>
       THEN <<"Missing required platforms: " \o Join(missing_platforms, ", ")>>
       ELSE <<>>

\* A plausible slip: the filter on free-threaded labels left out.
VersionsErrors_flagFreethreaded(vers, rv) ==
    LET Missing(v) == v \notin vers
        missing_versions == SelectSeq(ResolveList(rv, vers), Missing)
    IN IF rv # "" /\ missing_versions # <<>>
       THEN <<"Missing required Python versions: " \o Join(missing_versions, ", ")>>
       ELSE <<>>

VersionsErrors(vers, rv) ==
    LET Missing(v) == v \notin vers /\ ~EndsWith(v, "t")
        missing_versions == SelectSeq(ResolveList(rv, vers), Missing)
    IN IF rv # "" /\ missing_versions # <<>>
       THEN <<"Missing required Python versions: " \o Join(missing_versions, ", ")>>
       ELSE <<>>

\* A plausible slip: the policy read as a general "<M>.<m>" or "<M>.<m>+".
FreethreadedErrors_anyVersion(vers, vorder, rf) ==
    LET base == IF EndsWith(rf, "+") THEN SubSeq(rf, 1, Len(rf) - 1) ELSE rf IN
    IF rf \notin {"", "none", "all"} /\ (base \o "t") \notin vers
    THEN <<"Missing required free-threaded Python " \o base \o "t">>
    ELSE <<>>

\* A plausible slip: under "all" the alternate-interpreter labels are paired too.
FreethreadedErrors_pairsAlternate(vers, vorder, rf) ==
    IF rf = "all" THEN
        LET Regular(v) == ~EndsWith(v, "t")
            Unpaired(v) == (v \o "t") \notin vers
            lacking == SelectSeq(SelectSeq(vorder, Regular), Unpaired)
        IN [i \in 1..Len(lacking) |->
               "Missing free-threaded build for Python " \o lacking[i]
                  \o " (expected " \o lacking[i] \o "t)"]
    ELSE IF rf \in {"3.14", "3.14+"} /\ "3.14t" \notin vers
    THEN <<"Missing required free-threaded Python 3.14t">>
    ELSE <<>>

FreethreadedErrors(vers, vorder, rf) ==
    IF rf = "" \/ rf = "none" THEN <<>>
    ELSE IF rf = "3.14" THEN
        IF "3.14t" \notin vers THEN <<"Missing required free-threaded Python 3.14t">>
        ELSE <<>>
    ELSE IF rf = "3.14+" THEN
        IF "3.14t" \notin vers THEN <<"Missing required free-threaded Python 3.14t">>
        ELSE <<>>
    ELSE IF rf = "all" THEN
        LET Regular(v) == ~EndsWith(v, "t") /\ ~StartsWith(v, "PyPy")
            Unpaired(v) == (v \o "t") \notin vers
            lacking == SelectSeq(SelectSeq(vorder, Regular), Unpaired)
        IN [i \in 1..Len(lacking) |->
               "Missing free-threaded build for Python " \o lacking[i]
                  \o " (expected " \o lacking[i] \o "t)"]
    ELSE <<>>

FlatValidation(plats, vers, vorder, rp, rv, rf) ==
    Returned(PlatformsErrors(plats, rp) \o VersionsErrors(vers, rv)
                \o FreethreadedErrors(vers, vorder, rf))

\* A plausible slip: the flat checks run after the matrix checks as well.
validate_requirements_fallThrough(m, porder, vorder, rp, rv, rf, rm) ==
    LET plats == Range(porder)
        vers == Range(vorder)
        mr == MatrixValidation(m, porder, vers, rm)
    IN IF rm = "" THEN FlatValidation(plats, vers, vorder, rp, rv, rf)
       ELSE IF mr.raised # "" \/ ~json_loads(rm).ok THEN mr
       ELSE Returned(mr.errors \o FlatValidation(plats, vers, vorder, rp, rv, rf).errors)

validate_requirements(m, porder, vorder, rp, rv, rf, rm) ==
    IF rm # "" THEN MatrixValidation(m, porder, Range(vorder), rm)
    ELSE FlatValidation(Range(porder), Range(vorder), vorder, rp, rv, rf)

---------------------------------------------------------------------------
(* The validator applied to generated coverage and requirement inputs.     *)

GridPlatforms == {"Linux x86_64", "musllinux x86_64", "Windows x64"}

GridVersions == {"3.13", "3.14", "3.14t", "PyPy3.10"}

\* Non-empty coverage, as main guarantees before it validates.
CellSets ==
    {C \in SUBSET (GridPlatforms \X GridVersions) :
        Cardinality(C) >= 1 /\ Cardinality(C) <= MaxCells}

\* The matrix scan_wheels builds from wheels that decode to the cells.
MatrixOf(cells) ==
    [p \in {c[1] : c \in cells} |-> {c[2] : c \in {d \in cells : d[1] = p}}]

\* The coverage test_freethreaded_all hands to the validator.
TestCoverage ==
    [matrix |-> [p \in {"Linux x86_64"} |-> {"3.12", "3.13", "3.14t"}],
     platforms |-> {"Linux x86_64"},
     versions |-> {"3.12", "3.13", "3.14", "3.14t"}]

\* The coverage test_matrix_validation_with_wildcard hands to the validator.
WildcardCoverage ==
    [matrix |-> [p \in {"Linux x86_64", "Linux aarch64", "Windows x64"} |->
                    IF p = "Windows x64" THEN {"3.12"} ELSE {"3.12", "3.13"}],
     platforms |-> {"Linux x86_64", "Linux aarch64", "Windows x64"},
     versions |-> {"3.12", "3.13"}]

\* The (matrix, platforms, versions) triples validation starts from.
Coverages ==
    {[matrix |-> MatrixOf(cells),
      platforms |-> {c[1] : c \in cells},
      versions |-> {c[2] : c \in cells}] : cells \in CellSets}
       \cup {TestCoverage, WildcardCoverage}

\* The orders in which a set may be enumerated.
Perms(S) == {q \in [1..Cardinality(S) -> S] : Range(q) = S}

JsonStr(x) == "\"" \o x \o "\""

JsonRecord(r) ==
    "{" \o JsonStr("platform") \o ": " \o JsonStr(r.platform) \o ", "
        \o JsonStr("versions") \o ": " \o JsonStr(r.versions) \o "}"

JsonList(rs) == "[" \o Join([i \in 1..Len(rs) |-> JsonRecord(rs[i])], ", ") \o "]"

Records ==
    [platform : {"Linux*", "Windows x64", "?usllinux*", ""},
     versions : {"3.13", "3.13,3.13", "3.13-3.14, 3.14t", "3.13+"}]

FirstRecords ==
    {[platform |-> "macOS*", versions |-> "3.13"],
     [platform |-> "Linux*", versions |-> "3.13"],
     [platform |-> "", versions |-> "3.13"]}

RecordSeqs ==
    {<<>>} \cup {<<r>> : r \in Records}
           \cup {<<f, r>> : f \in FirstRecords, r \in Records}

WellFormedTexts == {JsonList(rs) : rs \in RecordSeqs}

\* Non-empty texts that are no JSON, or JSON of another shape.
MalformedTexts ==
    {"not json", "[", "5", "null", "true", "{}", "[1]", "[[]]",
     "\"Linux*\"", "[\"Linux*\"]",
     JsonRecord([platform |-> "Linux*", versions |-> "3.13"]),
     "[{\"platform\": \"Linux*\", \"versions\": 3.13}]",
     "[{\"platform\": 5, \"versions\": \"3.13\"}]"}

\* The flat platform list and the flat version list.
FlatLists ==
    {<<"", "">>, <<"Linux x86_64", "3.13,3.14">>, <<"Windows x64, macOS ARM64", "3.13+">>,
     <<"", "3.14t,PyPy3.10">>}

Policies ==
    {"", "none", "all"} \cup {Dotted(3, m) \o suf : m \in 13..15, suf \in {"", "+"}}

\* Flat inputs that accompany a matrix spec.
IgnoredFlat == {<<"macOS ARM64", "3.15", "all">>}

InitValidate ==
    /\ pc = "validate"
    /\ \E cov \in Coverages :
          /\ matrix = cov.matrix
          /\ platforms = cov.platforms
          /\ versions = cov.versions
    /\ wheel_files = <<>>
    /\ idx = 0
    /\ \/ /\ require_matrix = ""
          /\ \E f \in FlatLists :
                /\ require_platforms = f[1]
                /\ require_python_versions = f[2]
          /\ require_freethreaded \in Policies
       \/ /\ require_matrix \in WellFormedTexts \cup MalformedTexts
          /\ \E f \in IgnoredFlat :
                /\ require_platforms = f[1]
                /\ require_python_versions = f[2]
                /\ require_freethreaded = f[3]
    /\ result = NoResult
    /\ IdleParse /\ IdleResolve /\ IdleSort /\ IdleMain

\* An order of a set that the running mode does not enumerate.
AnyOrder(S) == CHOOSE q \in Perms(S) : TRUE

\* Matrix mode enumerates platforms only (the list of matching platforms).
ValidateMatrixMode ==
    /\ pc = "validate"
    /\ require_matrix # ""
    /\ \E porder \in Perms(platforms) :
          result' = validate_requirements(matrix, porder, AnyOrder(versions),
                        require_platforms, require_python_versions,
                        require_freethreaded, require_matrix)
    /\ pc' = "validated"
    /\ UNCHANGED <<require_platforms, require_python_versions, require_freethreaded,
                   require_matrix>>
    /\ UNCHANGED <<parseVars, scanVars, resolveVars, sortVars, mainVars>>

\* Flat mode enumerates versions only (the list of regular versions).
ValidateFlatMode ==
    /\ pc = "validate"
    /\ require_matrix = ""
    /\ \E vorder \in Perms(versions) :
          result' = validate_requirements(matrix, AnyOrder(platforms), vorder,
                        require_platforms, require_python_versions,
                        require_freethreaded, require_matrix)
    /\ pc' = "validated"
    /\ UNCHANGED <<require_platforms, require_python_versions, require_freethreaded,
                   require_matrix>>
    /\ UNCHANGED <<parseVars, scanVars, resolveVars, sortVars, mainVars>>

NextValidate == ValidateMatrixMode \/ ValidateFlatMode

SpecValidate == InitValidate /\ [][NextValidate]_vars

---------------------------------------------------------------------------
(* Claims about the validator.                                             *)

OtherFlat ==
    {<<"", "", "none">>, <<"macOS ARM64", "", "none">>, <<"", "3.15", "3.14">>,
     <<"Linux x86_64, macOS ARM64", "3.13+", "all">>}

\* C7: with a non-empty matrix spec the outcome of validation is an outcome
\* of validation under every other value of the flat inputs, and it holds
\* no flat-mode message; with an empty matrix spec validation returns
\* flat-mode messages only.
ThmC7_MatrixReplacesFlat ==
    pc = "validated" =>
        /\ require_matrix # "" =>
              /\ \A f \in OtherFlat :
                    \E porder \in Perms(platforms) :
                       result = validate_requirements(matrix, porder, AnyOrder(versions),
                                    f[1], f[2], f[3], require_matrix)
              /\ \A i \in 1..Len(result.errors) : ~StartsWith(result.errors[i], "Missing")
        /\ require_matrix = "" =>
              /\ result.raised = ""
              /\ \A i \in 1..Len(result.errors) : StartsWith(result.errors[i], "Missing")

\* A satisfied matrix spec beside flat inputs that nothing observed meets.
WitC7_FlatInputsIgnored ==
    /\ pc = "validated"
    /\ require_matrix = JsonList(<<[platform |-> "Linux*", versions |-> "3.13"]>>)
    /\ require_platforms = "macOS ARM64"
    /\ require_freethreaded = "all"
    /\ versions = {"3.13"}
    /\ result = Returned(<<>>)

\* C8: a non-empty matrix spec that is no sequence of {platform, versions}
\* records ends validation with ok = FALSE and exactly one message, without
\* raising.
CexC8_MalformedSpecOneMessage ==
    (pc = "validated" /\ require_matrix \in MalformedTexts) =>
        /\ result.raised = ""
        /\ ~result.ok
        /\ Len(result.errors) = 1

\* The first occurrence of every element of a sequence, in order.
RECURSIVE Dedup(_)
Dedup(q) ==
    IF q = <<>> THEN <<>>
    ELSE LET rest == Dedup(SubSeq(q, 1, Len(q) - 1))
             last == q[Len(q)]
         IN IF \E i \in 1..Len(rest) : rest[i] = last THEN rest ELSE Append(rest, last)

\* The messages C9 states for a sequence of records: per record, one
\* message if no platform matches, else one message per matching platform
\* that lacks a resolved version, listing each lacking version once.
RECURSIVE ClaimedMatrixErrors(_, _)
ClaimedMatrixErrors(rs, porder) ==
    IF rs = <<>> THEN <<>>
    ELSE LET r == Head(rs)
             Matches(p) == fnmatch(p, r.platform)
             matching == SelectSeq(porder, Matches)
             required == Dedup(ResolveList(r.versions, versions))
             Message(p) ==
                 LET Lacking(v) == v \notin matrix[p]
                     missing == SelectSeq(required, Lacking)
                 IN IF missing = <<>> THEN <<>>
                    ELSE <<"Platform '" \o p \o "' missing required versions: "
                              \o Join(missing, ", ")>>
         IN (IF matching = <<>>
             THEN <<"No platforms found matching pattern: " \o r.platform>>
             ELSE ConcatAll([i \in 1..Len(matching) |-> Message(matching[i])]))
            \o ClaimedMatrixErrors(Tail(rs), porder)

\* C9: in matrix mode every record with a pattern yields, per matching
\* platform, exactly one message when resolved versions are lacking, naming
\* the platform and listing every lacking version once in resolution order;
\* a record that matches no platform yields one message and the following
\* records are still evaluated.
CexC9_EachMissingListedOnce ==
    pc = "validated" =>
        \A rs \in RecordSeqs :
           (require_matrix = JsonList(rs) /\ \A i \in 1..Len(rs) : rs[i].platform # "") =>
              /\ result.raised = ""
              /\ \E porder \in Perms(platforms) :
                    result.errors = ClaimedMatrixErrors(rs, porder)

IsFreethreadedMessage(e) == Contains(e, "free-threaded")

ListedAfter(e, beginning) ==
    LET parts == Split(SubSeq(e, Len(beginning) + 1, Len(e)), ",")
    IN [i \in 1..Len(parts) |-> Strip(parts[i])]

VersionsBeginning == "Missing required Python versions: "

IsVersionsMessage(e) == StartsWith(e, VersionsBeginning)

\* C11: in flat mode there is at most one required-versions message, and
\* the labels it lists are, in resolution order, the resolved labels that
\* are not observed and do not end in 't' (no message when there is none);
\* no listed label ends in 't'.
ThmC11_FlatVersionsMessage ==
    (pc = "validated" /\ require_matrix = "") =>
        LET msgs == SelectSeq(result.errors, IsVersionsMessage)
            listed == IF msgs = <<>> THEN <<>>
                      ELSE ListedAfter(msgs[1], VersionsBeginning)
            required == ResolveList(require_python_versions, versions)
            Flagged(v) == v \notin versions /\ ~EndsWith(v, "t")
        IN /\ Len(msgs) <= 1
           /\ listed = SelectSeq(required, Flagged)
           /\ \A i \in 1..Len(listed) : ~EndsWith(listed[i], "t")

\* 3.14t and PyPy3.10 are required and neither is observed: only the
\* alternate-interpreter label is listed.
WitC11_AbsentFreethreadedNotListed ==
    /\ pc = "validated"
    /\ require_matrix = ""
    /\ require_python_versions = "3.14t,PyPy3.10"
    /\ versions = {"3.13", "3.14"}
    /\ SelectSeq(result.errors, IsVersionsMessage)
          = <<"Missing required Python versions: PyPy3.10">>

PairingMessage(v) ==
    "Missing free-threaded build for Python " \o v \o " (expected " \o v \o "t)"

\* C12: in flat mode under the policy "all" every free-threaded message is
\* the pairing message of an observed version that is neither free-threaded
\* nor alternate-interpreter and whose label followed by 't' is not
\* observed, every such version has exactly one message, and there are no
\* more messages than such versions; observed {3.12, 3.13, 3.14, 3.14t}
\* gives exactly the two messages for 3.12t and 3.13t.
ThmC12_AllPolicyPairing ==
    (pc = "validated" /\ require_matrix = "" /\ require_freethreaded = "all") =>
        LET msgs == SelectSeq(result.errors, IsFreethreadedMessage)
            unpaired == {v \in versions :
                            /\ Char(v, Len(v)) # "t"
                            /\ SubSeq(v, 1, 4) # "PyPy"
                            /\ (v \o "t") \notin versions}
        IN /\ Len(msgs) = Cardinality(unpaired)
           /\ \A v \in unpaired :
                 Cardinality({i \in 1..Len(msgs) : msgs[i] = PairingMessage(v)}) = 1
           /\ versions = {"3.12", "3.13", "3.14", "3.14t"} =>
                 Range(msgs) = {PairingMessage("3.12"), PairingMessage("3.13")}

\* The observed set of test_freethreaded_all under the policy "all".
WitC12_TwoPairingsMissing ==
    /\ pc = "validated"
    /\ require_matrix = ""
    /\ require_freethreaded = "all"
    /\ versions = {"3.12", "3.13", "3.14", "3.14t"}
    /\ Len(SelectSeq(result.errors, IsFreethreadedMessage)) = 2

\* C14: whenever the validator returns (in matrix mode, in flat mode and
\* for a matrix spec that is no JSON), ok is true exactly when the list of
\* messages is empty.
ThmC14_OkIffNoMessages ==
    (pc = "validated" /\ result.raised = "") =>
        (result.ok <=> Len(result.errors) = 0)

\* The return for a matrix spec that is no JSON.
WitC14_InvalidJsonReturn ==
    /\ pc = "validated"
    /\ require_matrix = "not json"
    /\ result.raised = ""
    /\ ~result.ok
    /\ result.errors = <<"Invalid JSON in require-matrix: not json">>

\* Whether a label matches a pattern of Records, written out per pattern:
\* "Linux*" asks for the OS token Linux, "?usllinux*" for any one character
\* followed by usllinux, a pattern without wildcard for the label itself.
ClaimedMatch(p, pattern) ==
    CASE pattern = "Linux*" -> Split(p, " ")[1] = "Linux"
      [] pattern = "?usllinux*" -> Len(p) >= 9 /\ SubSeq(p, 2, 9) = "usllinux"
      [] OTHER -> p = pattern

PlatformNamed(e) ==
    IF StartsWith(e, "Platform '")
    THEN Split(e, "'")[2]
    ELSE ""

\* C16: in matrix mode, for a spec of one record with a pattern, every
\* platform a message names is an observed label that matches the pattern;
\* when the record requires "3.13+" (which no platform satisfies) the
\* platforms named are exactly the observed labels that match, one message
\* each, and the only message is "No platforms found ..." when none
\* matches. "Linux*" matches the labels whose OS token is Linux and no
\* musllinux label.
ThmC16_PatternSelectsPlatforms ==
    pc = "validated" =>
        \A r \in Records :
           (require_matrix = JsonList(<<r>>) /\ r.platform # "") =>
              LET matching == {p \in platforms : ClaimedMatch(p, r.platform)}
                  named == {PlatformNamed(result.errors[i]) :
                               i \in 1..Len(result.errors)} \ {""}
              IN /\ result.raised = ""
                 /\ named \subseteq matching
                 /\ (matching = {}) =>
                       result.errors = <<"No platforms found matching pattern: "
                                            \o r.platform>>
                 /\ (r.versions = "3.13+" /\ matching # {}) =>
                       /\ named = matching
                       /\ Len(result.errors) = Cardinality(matching)

\* "Linux*" with a Linux and a musllinux label observed: only the Linux
\* label is checked.
WitC16_LinuxNotMusllinux ==
    /\ pc = "validated"
    /\ require_matrix = JsonList(<<[platform |-> "Linux*", versions |-> "3.13+"]>>)
    /\ platforms = {"Linux x86_64", "musllinux x86_64"}
    /\ Len(result.errors) = 1
    /\ PlatformNamed(result.errors[1]) = "Linux x86_64"

\* The text of every generated matrix spec.
MatrixText == [rs \in RecordSeqs |-> JsonList(rs)]

\* Well-formed open-ended tokens of both dialects.
ProbeTokens == {"3.9+", "3.13+", "3.14+", "PyPy3.9+", "PyPy3.10+"}

\* The last label of the expansion of a token under the observed versions.
LastResolved(tok) ==
    LET r == parse_version_requirement(tok, versions) IN
    IF r = <<>> THEN "" ELSE r[Len(r)]

ListsLabel(e, beginning, label) ==
    /\ StartsWith(e, beginning)
    /\ \E k \in 1..Len(ListedAfter(e, beginning)) : ListedAfter(e, beginning)[k] = label

\* C17: for the observed version set of every validation and every
\* well-formed open-ended token, the expansion is not empty and its last
\* label is not observed; a flat version list that holds such a token ends
\* with ok = FALSE and a versions message that lists that last label; a
\* matrix record that holds such a token ends with ok = FALSE and, for
\* every observed platform that matches the record, a message for that
\* platform that lists the last label.
ThmC17_OpenEndedAlwaysMissing ==
    pc = "validated" =>
        /\ \A tok \in ProbeTokens :
              LET last == LastResolved(tok) IN last # "" /\ last \notin versions
        /\ require_matrix = "" =>
              LET toks == SplitList(require_python_versions) IN
              \A k \in 1..Len(toks) :
                 toks[k] \in ProbeTokens =>
                    /\ result.raised = "" /\ ~result.ok
                    /\ \E i \in 1..Len(result.errors) :
                          ListsLabel(result.errors[i], VersionsBeginning,
                                     LastResolved(toks[k]))
        /\ require_matrix # "" =>
              \A rs \in RecordSeqs :
                 require_matrix = MatrixText[rs] =>
                    \A j \in 1..Len(rs) :
                       LET toks == SplitList(rs[j].versions) IN
                       \A k \in 1..Len(toks), p \in platforms :
                          (/\ toks[k] \in ProbeTokens
                           /\ rs[j].platform # ""
                           /\ ClaimedMatch(p, rs[j].platform)) =>
                             /\ result.raised = "" /\ ~result.ok
                             /\ \E i \in 1..Len(result.errors) :
                                   ListsLabel(result.errors[i],
                                       "Platform '" \o p \o "' missing required versions: ",
                                       LastResolved(toks[k]))

\* "3.13+" in the flat list with 3.13 and 3.14 observed: 3.15 is probed
\* and reported.
WitC17_ProbeReportedFlat ==
    /\ pc = "validated"
    /\ require_matrix = ""
    /\ require_python_versions = "3.13+"
    /\ versions = {"3.13", "3.14"}
    /\ ~result.ok
    /\ \E i \in 1..Len(result.errors) :
          result.errors[i] = "Missing required Python versions: 3.15"

\* Tokens that are neither an open-ended nor a range expression of a
\* recognized shape.
UnshapedTokens ==
    SingleTokens \cup {"latest", "3.x+", "+", "PyPy+", "3.9-", "3-9", "PyPy-3.9",
                       "3.11t", "PyPy3.9-3.10-3.11"}

\* C18: for every non-empty token and every observed version set the
\* resolver returns a non-empty list, and a token that is neither an
\* open-ended nor a range expression of a recognized shape is returned
\* unchanged as the only element; this includes a range token whose end
\* minor is lower than its start minor.
CexC18_ResolverNeverEmpty ==
    (pc = "resolved" /\ Strip(requirement) # "") =>
        /\ Len(resolved) >= 1
        /\ requirement \in UnshapedTokens => resolved = <<requirement>>

---------------------------------------------------------------------------
(* main: the existence check, the scan (the scan_wheels loop above), the   *)
(* validation (validate_requirements above), the report and the exit. The  *)
(* table text of generate_table is not part of this state; summary holds   *)
(* the lines main adds to it for the errors.                               *)

MainFiles ==
    {"pkg-1.0.0-cp312-cp312-manylinux_2_17_x86_64.whl",
     "pkg-1.0.0-cp312-cp312-win_amd64.whl",
     "pkg-1.0.0-cp314-cp314t-macosx_11_0_arm64.whl",
     "invalid.whl"}

MaxMainFiles == 2

\* --require-platforms, --require-python-versions, --require-freethreaded
\* and --require-matrix; the first tuple holds the argparse defaults.
MainRequirements ==
    {<<"", "", "none", "">>,
     <<"Linux x86_64", "3.12", "none", "">>,
     <<"Windows x64", "", "all", "">>,
     <<"", "", "none", JsonList(<<[platform |-> "Linux*", versions |-> "3.12"]>>)>>,
     <<"", "", "none", "not json">>,
     <<"", "", "none", "5">>}

\* --fail-on-missing; "true" is the argparse default.
Toggles == {"true", "True", "false", ""}

InitMain ==
    /\ pc = "main"
    /\ path_exists \in BOOLEAN
    /\ wheel_files \in (IF path_exists THEN SeqsUpTo(MainFiles, MaxMainFiles) ELSE {<<>>})
    /\ idx = 0
    /\ matrix = EmptyMatrix
    /\ platforms = {}
    /\ versions = {}
    /\ \E r \in MainRequirements :
          /\ require_platforms = r[1]
          /\ require_python_versions = r[2]
          /\ require_freethreaded = r[3]
          /\ require_matrix = r[4]
    /\ result = NoResult
    /\ fail_on_missing \in Toggles
    /\ stderr = <<>>
    /\ summary = <<>>
    /\ exit_status = Running
    /\ IdleParse /\ IdleResolve /\ IdleSort

\* if not wheels_path.exists(): ... sys.exit(1)
MainPathMissing ==
    /\ pc = "main"
    /\ ~path_exists
    /\ stderr' = <<"Error: Path does not exist">>
    /\ exit_status' = 1
    /\ pc' = "exited"
    /\ UNCHANGED <<path_exists, fail_on_missing, summary>>
    /\ UNCHANGED <<parseVars, scanVars, resolveVars, validateVars, sortVars>>

\* The call of scan_wheels.
MainScan ==
    /\ pc = "main"
    /\ path_exists
    /\ pc' = "scan"
    /\ UNCHANGED <<parseVars, scanVars, resolveVars, validateVars, sortVars, mainVars>>

\* if not platforms or not versions: ... sys.exit(1)
MainNoWheels ==
    /\ pc = "scanned"
    /\ (platforms = {} \/ versions = {})
    /\ stderr' = <<"No wheel files found">>
    /\ exit_status' = 1
    /\ pc' = "exited"
    /\ UNCHANGED <<path_exists, fail_on_missing, summary>>
    /\ UNCHANGED <<parseVars, scanVars, resolveVars, validateVars, sortVars>>

\* The call of validate_requirements.
MainWheelsFound ==
    /\ pc = "scanned"
    /\ ~(platforms = {} \/ versions = {})
    /\ pc' = "validate"
    /\ UNCHANGED <<parseVars, scanVars, resolveVars, validateVars, sortVars, mainVars>>

\* An exception validate_requirements raises is caught nowhere: the
\* interpreter prints the traceback and exits with status 1.
MainUncaught ==
    /\ pc = "validated"
    /\ result.raised # ""
    /\ stderr' = <<"Traceback (most recent call last): " \o result.raised>>
    /\ exit_status' = 1
    /\ pc' = "exited"
    /\ UNCHANGED <<path_exists, fail_on_missing, summary>>
    /\ UNCHANGED <<parseVars, scanVars, resolveVars, validateVars, sortVars>>

\* for error in errors: table += f"- ... {error}\n"
ErrorLines(errors) == [i \in 1..Len(errors) |-> "- " \o errors[i]]

\* for error in errors: print(f"  - {error}", file=sys.stderr)
Diagnostics(errors) == [i \in 1..Len(errors) |-> "  - " \o errors[i]]

\* if not requirements_met and args.fail_on_missing.lower() == "true"
MainFail ==
    /\ pc = "validated"
    /\ result.raised = ""
    /\ ~result.ok /\ Lower(fail_on_missing) = "true"
    /\ summary' = ErrorLines(result.errors)
    /\ stderr' = <<"Required wheels are missing!">> \o Diagnostics(result.errors)
    /\ exit_status' = 1
    /\ pc' = "exited"
    /\ UNCHANGED <<path_exists, fail_on_missing>>
    /\ UNCHANGED <<parseVars, scanVars, resolveVars, validateVars, sortVars>>

\* elif not requirements_met
MainWarn ==
    /\ pc = "validated"
    /\ result.raised = ""
    /\ ~result.ok /\ Lower(fail_on_missing) # "true"
    /\ summary' = ErrorLines(result.errors)
    /\ stderr' = <<"Warning: Required wheels are missing, but continuing...">>
                    \o Diagnostics(result.errors)
    /\ exit_status' = 0
    /\ pc' = "exited"
    /\ UNCHANGED <<path_exists, fail_on_missing>>
    /\ UNCHANGED <<parseVars, scanVars, resolveVars, validateVars, sortVars>>

\* Requirements met: main returns.
MainPass ==
    /\ pc = "validated"
    /\ result.raised = ""
    /\ result.ok
    /\ summary' = ErrorLines(result.errors)
    /\ exit_status' = 0
    /\ pc' = "exited"
    /\ UNCHANGED <<path_exists, fail_on_missing, stderr>>
    /\ UNCHANGED <<parseVars, scanVars, resolveVars, validateVars, sortVars>>

NextMain ==
    \/ MainPathMissing \/ MainScan
    \/ ScanStep \/ ScanReturn
    \/ MainNoWheels \/ MainWheelsFound
    \/ ValidateMatrixMode \/ ValidateFlatMode
    \/ MainUncaught \/ MainFail \/ MainWarn \/ MainPass

SpecMain == InitMain /\ [][NextMain]_vars

\* C13: the exit status is non-zero exactly when the scan path does not
\* exist, or no artifact was recognized, or validation failed while the
\* fail-on-missing toggle is true; in particular it is zero whenever the
\* path exists, an artifact was recognized and the toggle is false.
CexC13_ExitStatus ==
    pc = "exited" =>
        (exit_status # 0 <=>
            \/ ~path_exists
            \/ Cells(wheel_files) = {}
            \/ (~result.ok /\ fail_on_missing \in {"true", "True"}))

---------------------------------------------------------------------------
(* sort_versions: sorted(versions, key=version_sort_key). sorted is        *)
(* stable, so labels with equal keys keep the order in which the set       *)
(* enumerates them.                                                        *)

\* re.match(r"(\d+)\.(\d+)t", version)
MatchFreethreaded(version) ==
    LET a == DigitRun(version, 1)
        b == DigitRun(version, a + 2)
    IN IF MatchVersion("", version).matched /\ Char(version, a + b + 2) = "t"
       THEN MatchVersion("", version)
       ELSE NoVersion

\* A plausible slip: the alternate interpreter ranked with the standard one.
version_sort_key_oneFamily(version) ==
    IF MatchVersion("PyPy", version).matched
    THEN <<0, MatchVersion("PyPy", version).major, MatchVersion("PyPy", version).minor, 0>>
    ELSE IF EndsWith(version, "t") /\ MatchFreethreaded(version).matched
    THEN <<0, MatchFreethreaded(version).major, MatchFreethreaded(version).minor, 1>>
    ELSE IF MatchVersion("", version).matched
    THEN <<0, MatchVersion("", version).major, MatchVersion("", version).minor, 0>>
    ELSE <<99, 0, 0, 0>>

version_sort_key(version) ==
    IF StartsWith(version, "PyPy") /\ MatchVersion("PyPy", version).matched
    THEN <<1, MatchVersion("PyPy", version).major, MatchVersion("PyPy", version).minor, 0>>
    ELSE IF EndsWith(version, "t") /\ MatchFreethreaded(version).matched
    THEN <<0, MatchFreethreaded(version).major, MatchFreethreaded(version).minor, 1>>
    ELSE IF MatchVersion("", version).matched
    THEN <<0, MatchVersion("", version).major, MatchVersion("", version).minor, 0>>
    ELSE <<99, 0, 0, 0>>

\* Comparison of two tuples of four integers, as Python compares tuples.
TupleLess(x, y) ==
    \E i \in 1..4 : x[i] < y[i] /\ \A j \in 1..(i - 1) : x[j] = y[j]

\* The sorted list with one more label, which goes behind every label whose
\* key is not greater than its own.
RECURSIVE InsertSorted(_, _)
InsertSorted(sorted, version) ==
    IF sorted = <<>> THEN <<version>>
    ELSE IF TupleLess(version_sort_key(version), version_sort_key(sorted[Len(sorted)]))
    THEN Append(InsertSorted(SubSeq(sorted, 1, Len(sorted) - 1), version),
                sorted[Len(sorted)])
    ELSE Append(sorted, version)

\* sorted(versions, key=version_sort_key) for the enumeration order given.
RECURSIVE sort_versions(_)
sort_versions(order) ==
    IF order = <<>> THEN <<>>
    ELSE InsertSorted(sort_versions(SubSeq(order, 1, Len(order) - 1)), order[Len(order)])

MaxLabels == 3

\* Labels python_version yields: standard, free-threaded, alternate
\* interpreter, a minor written with a leading zero (tag cp308), and runtime
\* tags it returns unchanged.
SortLabels ==
    {"3.8", "3.10", "3.14", "3.14t", "3.8t", "3.08", "2.7",
     "PyPy3.9", "PyPy2.7", "py3", "py2.py3"}

\* The set test_sort_versions sorts.
TestLabels == {"3.12", "3.8", "3.14t", "PyPy3.9", "3.10", "3.14"}

LabelSets ==
    {S \in SUBSET SortLabels : Cardinality(S) >= 1 /\ Cardinality(S) <= MaxLabels}
       \cup {TestLabels}

InitSort ==
    /\ pc = "sort"
    /\ versions \in LabelSets
    /\ wheel_files = <<>>
    /\ idx = 0
    /\ matrix = EmptyMatrix
    /\ platforms = {}
    /\ sorted_versions = <<>>
    /\ IdleParse /\ IdleResolve /\ IdleValidate /\ IdleMain

SortVersions ==
    /\ pc = "sort"
    /\ \E order \in Perms(versions) : sorted_versions' = sort_versions(order)
    /\ pc' = "sorted"
    /\ UNCHANGED <<parseVars, scanVars, resolveVars, validateVars, mainVars>>

NextSort == SortVersions

SpecSort == InitSort /\ [][NextSort]_vars

\* The key C15 gives each label: family rank (standard 0, alternate
\* interpreter 1, no version 99), major, minor, free-threaded rank.
ClaimedKey(v) ==
    CASE v = "2.7" -> <<0, 2, 7, 0>>
      [] v = "3.8" -> <<0, 3, 8, 0>>
      [] v = "3.08" -> <<0, 3, 8, 0>>
      [] v = "3.8t" -> <<0, 3, 8, 1>>
      [] v = "3.10" -> <<0, 3, 10, 0>>
      [] v = "3.12" -> <<0, 3, 12, 0>>
      [] v = "3.14" -> <<0, 3, 14, 0>>
      [] v = "3.14t" -> <<0, 3, 14, 1>>
      [] v = "PyPy2.7" -> <<1, 2, 7, 0>>
      [] v = "PyPy3.9" -> <<1, 3, 9, 0>>
      [] v = "py3" -> <<99, 0, 0, 0>>
      [] v = "py2.py3" -> <<99, 0, 0, 0>>

\* C15: the sorted list holds every label of the set once, in
\* non-decreasing order of the key (family, major, minor, free-threaded)
\* with major and minor as integers; every alternate-interpreter label is
\* behind every standard label; between a plain label and the free-threaded
\* label of the same major.minor stand only labels of that major.minor (so
\* the free-threaded label directly follows the plain one when each is the
\* only label of its kind); labels without a version are last; and the set
\* of test_sort_versions gives [3.8, 3.10, 3.12, 3.14, 3.14t, PyPy3.9].
ThmC15_SortByKey ==
    pc = "sorted" =>
        LET s == sorted_versions
            n == Len(s)
            k(i) == ClaimedKey(s[i])
        IN /\ n = Cardinality(versions)
           /\ Range(s) = versions
           /\ \A i \in 1..n, j \in 1..n : i < j => ~TupleLess(k(j), k(i))
           /\ \A i \in 1..n, j \in 1..n : (k(i)[1] = 1 /\ k(j)[1] = 0) => j < i
           /\ \A i \in 1..n, j \in 1..n :
                 (k(i)[1] = 0 /\ k(j) = <<0, k(i)[2], k(i)[3], 1>> /\ k(i)[4] = 0) =>
                    /\ i < j
                    /\ \A m \in (i + 1)..(j - 1) :
                          k(m)[1] = 0 /\ k(m)[2] = k(i)[2] /\ k(m)[3] = k(i)[3]
                    /\ (/\ Cardinality({x \in 1..n : k(x) = k(i)}) = 1
                        /\ Cardinality({x \in 1..n : k(x) = k(j)}) = 1) => j = i + 1
           /\ \A i \in 1..n, j \in 1..n : (k(i)[1] = 99 /\ k(j)[1] # 99) => j < i
           /\ versions = TestLabels =>
                 s = <<"3.8", "3.10", "3.12", "3.14", "3.14t", "PyPy3.9">>

\* The set of test_sort_versions sorted: a two-digit minor behind a
\* one-digit minor, a free-threaded label behind its plain label, and an
\* alternate-interpreter label with a lower minor behind them all.
WitC15_MixedFamilies ==
    /\ pc = "sorted"
    /\ versions = TestLabels
    /\ sorted_versions = <<"3.8", "3.10", "3.12", "3.14", "3.14t", "PyPy3.9">>

====
